---- MODULE Spec2Model ----
(***************************************************************************)
(* hsd-auction-notify: the auction index (lib/auctiondb.js), its key       *)
(* layout (lib/layout.js), the chain 'connect' handler, the websocket      *)
(* hooks, the query routes and the options of the HTTP server              *)
(* (lib/http.js), the plugin (lib/plugin.js), the client (lib/client.js)   *)
(* and the event names the twitter bot binds (bin/twitter-bot).            *)
(*                                                                         *)
(* The store is a map from byte-string keys to byte-string values, as bdb  *)
(* keeps it: keys are compared bytewise, a batch is a buffered list of     *)
(* put/del operations applied all at once by write().                      *)
(***************************************************************************)
EXTENDS Integers, Sequences, FiniteSets, TLC

VARIABLES
    db,       \* committed store content: [key -> value], keys are byte sequences
    prev,     \* history: the store content before the last step
    batch,    \* AuctionDB.batch: NoBatch (null) or the buffered operations
    last,     \* the mutating AuctionDB call of the last step (NoCall if it made none):
              \* its arguments, its local `count`, its return value
    calls,    \* number of mutating AuctionDB calls made directly so far
    live,     \* history: <<kind, name, outpoint>> added with success, not since removed
    ever,     \* history: <<kind, name, outpoint>> ever added with success
    pc,       \* position of the 'connect' handler: "idle" or "outputs"
    block,    \* the block the handler is processing: its hash and position in it
    events,   \* events emitted by the handler's last step, in order
    outputs,  \* number of outputs the handler has walked so far, over all blocks
    tipped,   \* history: the hash of the last putTip whose write succeeded (null if none)
    seen,     \* history: <<kind, name, outpoint>> of every BID and REVEAL output of
              \* the blocks connected so far, walked by the handler or not
              \* (kept while no store failure has occurred, {} after one)
    failed,   \* history: a store write or read has failed during block processing
    noAuth,   \* HTTPOptions.noAuth
    sockets,  \* per websocket: joined to 'auth', watch/unwatch hooks installed,
              \* joined to 'auction-notify'; and the history `proved`: it has
              \* presented a secret whose hash is the API hash
    hook,     \* the socket call of the last step (NoHook if it made none)
    inbox,    \* per websocket: the messages sent to it by the last step, in order
    heard,    \* history: for each websocket joined to 'auction-notify' from the
              \* first block on, the <<kind, name, outpoint>> of the 'bid' and
              \* 'reveal' messages sent to it
    running,  \* the hashes of the blocks whose 'connect' listener has been called
              \* and has not finished
    tasks,    \* per concurrent caller of AuctionDB: the call it is in, how far the
              \* call has got, its local `count`, the outcome of its write, its
              \* return value, and the history `raced`: the call was in progress
              \* together with another caller's
    opened,   \* the store (AuctionDB.db) is open
    pending,  \* per websocket: messages have been sent to it that its consumer
              \* has not taken yet
    plugin,   \* position of the Plugin in its open() / close()
    listening, \* the HTTP/websocket server accepts requests
    request,  \* the request the server served in the last step (NoRequest if none)
    client,   \* the AuctionNotifyClient on websocket 1: its position in open() /
              \* close(), its connection, its password, and the history `sent`:
              \* the calls it has made, each with the state of the connection then
    options   \* the options the HTTP server was constructed with

vars == <<db, prev, batch, last, calls, live, ever, pc, block, events, outputs,
          tipped, seen, failed, noAuth, sockets, hook, inbox, heard, running,
          tasks, opened, pending, plugin, listening, request, client, options>>

(***************************************************************************)
(* Bounds of the model.                                                    *)
(***************************************************************************)
MaxCalls == 3       \* mutating AuctionDB calls in one run of Spec
MaxOutputs == 3     \* outputs walked in one run of BlockSpec, over all its blocks
HashSize == 2       \* bytes of a hash in the model (a hash256 field has 32)

(***************************************************************************)
(* Program constants: the key tags of the layout.                          *)
(***************************************************************************)
TagT == 84          \* 'T'
TagB == 66          \* 'B'
Tagb == 98          \* 'b'
TagR == 82          \* 'R'
Tagr == 114         \* 'r'

\* Names are ascii strings, written as their character codes: "a", "ab".
Names == {<<97>>, <<97, 98>>}

Hash(b) == [i \in 1..HashSize |-> b]
HashMin == Hash(0)
HashMax == Hash(255)

H1 == Hash(17)
H2 == Hash(34)
Hashes == {H1, H2}
Outpoints == {[hash |-> H1, index |-> 0], [hash |-> H1, index |-> 1],
              [hash |-> H2, index |-> 0]}
Kinds == {"bid", "reveal"}

(***************************************************************************)
(* JavaScript values returned by the calls.                                *)
(***************************************************************************)
JsNull == [type |-> "null"]
JsUndefined == [type |-> "undefined"]
JsThrow == [type |-> "throw"]
JsBool(v) == [type |-> "bool", v |-> v]
JsBN(n) == [type |-> "bn", n |-> n]
JsBuf(bytes) == [type |-> "buffer", bytes |-> bytes]
JsList(s) == [type |-> "list", items |-> s]

NoBatch == [open |-> FALSE, ops |-> <<>>]
EmptyDb == [k \in {} |-> <<>>]
NoName == <<>>
NoOutpoint == [hash |-> <<>>, index |-> 0]

(***************************************************************************)
(* bcrypto BN: encode() is the minimal big-endian magnitude, at least one  *)
(* byte long, without a sign; decode() reads a big-endian magnitude.       *)
(***************************************************************************)
Abs(n) == IF n < 0 THEN 0 - n ELSE n

RECURSIVE BytesBE(_)
BytesBE(n) == IF n < 256 THEN <<n>> ELSE Append(BytesBE(n \div 256), n % 256)

BN_encode(n) == BytesBE(Abs(n))

RECURSIVE BN_decode(_)
BN_decode(raw) ==
    IF Len(raw) = 0 THEN 0
    ELSE 256 * BN_decode(SubSeq(raw, 1, Len(raw) - 1)) + raw[Len(raw)]

(***************************************************************************)
(* bdb keys: one tag byte, then the fields. An 'ascii' field is its length *)
(* byte followed by its characters, a 'hash256' field is its bytes, a      *)
(* 'uint32' field is 4 bytes big-endian.                                   *)
(***************************************************************************)
U32BE(i) ==
    << (i \div 16777216) % 256, (i \div 65536) % 256, (i \div 256) % 256, i % 256 >>
U32Min == <<0, 0, 0, 0>>
U32Max == <<255, 255, 255, 255>>

ReadU32BE(s) == 16777216 * s[1] + 65536 * s[2] + 256 * s[3] + s[4]

Ascii(name) == <<Len(name)>> \o name

T_encode == <<TagT>>
B_key(name, hash, index4) == <<TagB>> \o Ascii(name) \o hash \o index4
R_key(name, hash, index4) == <<TagR>> \o Ascii(name) \o hash \o index4
B_encode(name, hash, index) == B_key(name, hash, U32BE(index))
b_encode(name) == <<Tagb>> \o Ascii(name)
R_encode(name, hash, index) == R_key(name, hash, U32BE(index))
\* faulty variant: the reveal counter kept under the bid counter's tag
r_encode_bidTag(name) == <<Tagb>> \o Ascii(name)
r_encode(name) == <<Tagr>> \o Ascii(name)

\* min()/max() fill the fields that are not given with the field type's bounds.
B_min(name) == B_key(name, HashMin, U32Min)
\* faulty variant: the upper bound of the scan not restricted to the name
B_max_anyName(name) == <<TagB, 255>>
B_max(name) == B_key(name, HashMax, U32Max)
R_min(name) == R_key(name, HashMin, U32Min)
R_max(name) == R_key(name, HashMax, U32Max)

\* decode() of a B or R key: <<name, hash, index>>.
KeyDecode(key) ==
    LET n == key[2]
    IN << SubSeq(key, 3, 2 + n),
          SubSeq(key, 3 + n, 2 + n + HashSize),
          ReadU32BE(SubSeq(key, 3 + n + HashSize, 6 + n + HashSize)) >>

B_decode(key) == KeyDecode(key)
R_decode(key) == KeyDecode(key)

(***************************************************************************)
(* The store: bytewise key order, get/has/put, ordered key scans, batches. *)
(***************************************************************************)
Min(S) == CHOOSE x \in S : \A y \in S : x <= y

\* a <= b in the bytewise (memcmp, then length) order of the store
KeyLE(a, b) ==
    LET n == IF Len(a) < Len(b) THEN Len(a) ELSE Len(b)
        diff == {i \in 1..n : a[i] # b[i]}
    IN IF diff = {} THEN Len(a) <= Len(b) ELSE a[Min(diff)] < b[Min(diff)]

db_get(d, key) == IF key \in DOMAIN d THEN JsBuf(d[key]) ELSE JsNull
db_has(d, key) == key \in DOMAIN d
db_put(d, key, value) == [k \in DOMAIN d \cup {key} |-> IF k = key THEN value ELSE d[k]]
db_del(d, key) == [k \in DOMAIN d \ {key} |-> d[k]]

RECURSIVE SortKeys(_)
SortKeys(S) ==
    IF S = {} THEN <<>>
    ELSE LET m == CHOOSE k \in S : \A o \in S : KeyLE(k, o)
         IN <<m>> \o SortKeys(S \ {m})

\* db.keys({gte, lte}): the keys of the range in ascending order
db_keys(d, gte, lte) ==
    SortKeys({k \in DOMAIN d : KeyLE(gte, k) /\ KeyLE(k, lte)})

\* batch.put / batch.del buffer an operation; batch.write applies them in order
db_batch == [open |-> TRUE, ops |-> <<>>]
batch_put(b, key, value) ==
    [b EXCEPT !.ops = Append(@, [type |-> "put", key |-> key, value |-> value])]
batch_del(b, key) ==
    [b EXCEPT !.ops = Append(@, [type |-> "del", key |-> key, value |-> <<>>])]

RECURSIVE ApplyOps(_, _)
ApplyOps(d, ops) ==
    IF Len(ops) = 0 THEN d
    ELSE LET o == Head(ops)
         IN ApplyOps(IF o.type = "put" THEN db_put(d, o.key, o.value)
                                       ELSE db_del(d, o.key),
                     Tail(ops))

batch_write(d, b) == ApplyOps(d, b.ops)

(***************************************************************************)
(* AuctionDB. Each method is an operator from the store content, the       *)
(* pending-batch slot and the arguments to the new content, the new slot,  *)
(* the method's local `count` and its return value. writeOk says whether   *)
(* the store's write succeeds.                                             *)
(***************************************************************************)
\* JavaScript `!v`
Not(v) ==
    \/ v.type \in {"null", "undefined"}
    \/ v.type = "bool" /\ ~v.v
    \/ v.type = "string" /\ v.v = <<>>

Result(d, bt, count, ret) == [db |-> d, batch |-> bt, count |-> count, ret |-> ret]

\* start(): assert(this.batch === null); this.batch = this.db.batch()
start(bt) == db_batch

\* commit(): write the batch; null on a failed write, true otherwise; the slot
\* is cleared either way
commit(d, bt, writeOk) ==
    IF writeOk THEN Result(batch_write(d, bt), NoBatch, JsNull, JsBool(TRUE))
    ELSE Result(d, NoBatch, JsNull, JsNull)

getTip(d) ==
    LET tip == db_get(d, T_encode)
    IN IF Not(tip) THEN JsNull ELSE tip

\* faulty variant: the hash is returned without being stored
putTip_unstored(d, bt, hash, writeOk) ==
    IF writeOk THEN Result(d, bt, JsNull, JsBuf(hash))
    ELSE Result(d, bt, JsNull, JsNull)

\* putTip(): a direct put; a failed put is reported on 'error' and returns null
putTip(d, bt, hash, writeOk) ==
    IF writeOk THEN Result(db_put(d, T_encode, hash), bt, JsNull, JsBuf(hash))
    ELSE Result(d, bt, JsNull, JsNull)

getBidCount(d, name) ==
    LET raw == db_get(d, b_encode(name))
    IN IF Not(raw) THEN JsNull ELSE JsBN(BN_decode(raw.bytes))

\* faulty variant: the counter written by a put of its own, outside the batch
addBid_counterOutsideBatch(d, bt, name, outpoint, writeOk) ==
    LET got == getBidCount(d, name)
        count == (IF Not(got) THEN 0 ELSE got.n) + 1
        d1 == db_put(d, b_encode(name), BN_encode(count))
        b1 == batch_put(start(bt), B_encode(name, outpoint.hash, outpoint.index), <<>>)
        c == commit(d1, b1, writeOk)
    IN Result(c.db, c.batch, JsBN(count), IF Not(c.ret) THEN JsNull ELSE JsBool(TRUE))

addBid(d, bt, name, outpoint, writeOk) ==
    LET got == getBidCount(d, name)
        count == (IF Not(got) THEN 0 ELSE got.n) + 1
    IN IF bt # NoBatch THEN Result(d, bt, JsBN(count), JsThrow)
       ELSE LET b1 == batch_put(start(bt), b_encode(name), BN_encode(count))
                b2 == batch_put(b1, B_encode(name, outpoint.hash, outpoint.index), <<>>)
                c == commit(d, b2, writeOk)
            IN Result(c.db, c.batch, JsBN(count),
                      IF Not(c.ret) THEN JsNull ELSE JsBool(TRUE))

\* faulty variant: the counter is decremented but the membership key is not deleted
removeBid_keepsKey(d, bt, name, outpoint, writeOk) ==
    LET got == getBidCount(d, name)
    IN IF Not(got) THEN Result(d, bt, JsNull, JsNull)
       ELSE LET b1 == batch_put(start(bt), b_encode(name), BN_encode(got.n - 1))
                c == commit(d, b1, writeOk)
            IN Result(c.db, c.batch, JsBN(got.n - 1),
                      IF Not(c.ret) THEN JsBool(FALSE) ELSE JsBool(TRUE))

removeBid(d, bt, name, outpoint, writeOk) ==
    LET got == getBidCount(d, name)
    IN IF Not(got) THEN Result(d, bt, JsNull, JsNull)
       ELSE LET count == got.n - 1
            IN IF bt # NoBatch THEN Result(d, bt, JsBN(count), JsThrow)
               ELSE LET b1 == batch_put(start(bt), b_encode(name), BN_encode(count))
                        b2 == batch_del(b1, B_encode(name, outpoint.hash, outpoint.index))
                        c == commit(d, b2, writeOk)
                    IN Result(c.db, c.batch, JsBN(count),
                              IF Not(c.ret) THEN JsBool(FALSE) ELSE JsBool(TRUE))

ParseOutpoint(t) == [hash |-> t[2], index |-> t[3]]

getBids(d, name) ==
    LET keys == db_keys(d, B_min(name), B_max(name))
    IN JsList([i \in 1..Len(keys) |-> ParseOutpoint(B_decode(keys[i]))])

\* faulty variant: the bid membership looked up under the reveal key
hasBid_revealKey(d, name, outpoint) ==
    JsBool(db_has(d, R_encode(name, outpoint.hash, outpoint.index)))

hasBid(d, name, outpoint) ==
    JsBool(db_has(d, B_encode(name, outpoint.hash, outpoint.index)))

getRevealCount(d, name) ==
    LET raw == db_get(d, r_encode(name))
    IN IF Not(raw) THEN JsNull ELSE JsBN(BN_decode(raw.bytes))

addReveal(d, bt, name, outpoint, writeOk) ==
    LET got == getRevealCount(d, name)
        count == (IF Not(got) THEN 0 ELSE got.n) + 1
    IN IF bt # NoBatch THEN Result(d, bt, JsBN(count), JsThrow)
       ELSE LET b1 == batch_put(start(bt), r_encode(name), BN_encode(count))
                b2 == batch_put(b1, R_encode(name, outpoint.hash, outpoint.index), <<>>)
                c == commit(d, b2, writeOk)
            IN Result(c.db, c.batch, JsBN(count),
                      IF Not(c.ret) THEN JsNull ELSE JsBool(TRUE))

removeReveal(d, bt, name, outpoint, writeOk) ==
    LET got == getRevealCount(d, name)
    IN IF Not(got) THEN Result(d, bt, JsNull, JsNull)
       ELSE LET count == got.n - 1
            IN IF bt # NoBatch THEN Result(d, bt, JsBN(count), JsThrow)
               ELSE LET b1 == batch_put(start(bt), r_encode(name), BN_encode(count))
                        b2 == batch_del(b1, R_encode(name, outpoint.hash, outpoint.index))
                        c == commit(d, b2, writeOk)
                    IN Result(c.db, c.batch, JsBN(count),
                              IF Not(c.ret) THEN JsBool(FALSE) ELSE JsBool(TRUE))

getReveals(d, name) ==
    LET keys == db_keys(d, R_min(name), R_max(name))
    IN JsList([i \in 1..Len(keys) |-> ParseOutpoint(R_decode(keys[i]))])

hasReveal(d, name, outpoint) ==
    JsBool(db_has(d, R_encode(name, outpoint.hash, outpoint.index)))

\* faulty variant: only the membership keys are deleted, the counters stay
wipe_sparesCounters(d, bt, writeOk) ==
    LET doomed == {k \in DOMAIN d : k[1] \in {TagB, TagR}}
        total == Cardinality(doomed)
    IN IF writeOk THEN Result([k \in DOMAIN d \ doomed |-> d[k]], bt, JsBN(total), JsUndefined)
       ELSE Result(d, bt, JsBN(total), JsThrow)

\* wipe(): delete every key tagged B, b, R or r in one batch of its own; `count`
\* is the local `total`; a failed write rejects
wipe(d, bt, writeOk) ==
    LET doomed == {k \in DOMAIN d : k[1] \in {TagB, Tagb, TagR, Tagr}}
        total == Cardinality(doomed)
    IN IF writeOk THEN Result([k \in DOMAIN d \ doomed |-> d[k]], bt, JsBN(total), JsUndefined)
       ELSE Result(d, bt, JsBN(total), JsThrow)

\* the counter a count query reports, an absent record read as 0
CountOf(v) == IF v.type = "bn" THEN v.n ELSE 0
Items(v) == v.items
Range(s) == {s[i] : i \in 1..Len(s)}

(***************************************************************************)
(* Direct use of AuctionDB, one call at a time (as test/db-test.js uses    *)
(* it). The queries (getTip, getBidCount, getBids, hasBid, ...) read the   *)
(* committed store and change nothing: they are the operators above.       *)
(***************************************************************************)
Call(op, name, outpoint, writeOk, r) ==
    [op |-> op, name |-> name, outpoint |-> outpoint, writeOk |-> writeOk,
     count |-> r.count, ret |-> r.ret]

\* no block yet: `step` names the branch the handler's last step took, `value`
\* the output value that step passed on (0 if none), `coins` the outpoints whose
\* coin the chain holds at that step, `io` what the store did during that step,
\* `name` the name of the name state in a branch that makes no mutating call
NoBlock == [hash |-> <<>>, txid |-> <<>>, index |-> 0, threw |-> FALSE,
            step |-> "idle", value |-> 0, coins |-> {}, io |-> "ok", name |-> <<>>]

NoCall == Call("none", NoName, NoOutpoint, TRUE, Result(EmptyDb, NoBatch, JsNull, JsNull))

\* websockets: none has called a hook yet
Sockets == {1, 2}
NoSocket == [auth |-> FALSE, hooks |-> FALSE, watching |-> FALSE, proved |-> FALSE]
NoHook == [socket |-> 0, call |-> "none", key |-> <<>>, ret |-> JsNull]
NoInbox == [s \in Sockets |-> <<>>]

\* concurrent callers: none has called yet
Tasks == {1, 2}
NoTask == [pc |-> "idle", op |-> "none", name |-> NoName, outpoint |-> NoOutpoint,
           count |-> JsNull, ok |-> TRUE, ret |-> JsNull, raced |-> FALSE]

(***************************************************************************)
(* HTTPOptions: the options object the Plugin hands to the HTTP server. A  *)
(* key is a string, written as its character codes.                        *)
(***************************************************************************)
JsStr(v) == [type |-> "string", v |-> v]

\* the API key the operator configures
apiKey == <<115, 51>>

\* the key the constructor generates: base58.encode(random.randomBytes(20))
randomKey == <<114, 52, 110, 100>>

\* Buffer.from(key, 'ascii'): the low byte of each character code
Buffer_from_ascii(key) == [i \in 1..Len(key) |-> key[i] % 256]

\* sha256.digest(data): a digest that differs whenever the data differ
sha256_digest(data) == [sha256 |-> data]

Loopback == {"127.0.0.1", "::1"}

\* the options an operator may give: no API key, the empty string or a key; no
\* host, a loopback host or another; noAuth left out, true or false
Options ==
    [apiKey : {JsUndefined, JsStr(<<>>), JsStr(apiKey)},
     host : {JsUndefined, JsStr("::1"), JsStr("0.0.0.0")},
     noAuth : {JsUndefined, JsBool(TRUE), JsBool(FALSE)}]

\* the options of a server configured with an API key and nothing else
KeyOptions == [apiKey |-> JsStr(apiKey), host |-> JsUndefined, noAuth |-> JsUndefined]

\* faulty variant: authentication is implicitly off whenever no API key is given,
\* whatever the host
HTTPOptions_anyHost(o) ==
    LET key == IF o.apiKey.type = "string" THEN o.apiKey.v ELSE randomKey
        host == IF o.host.type = "string" THEN o.host.v ELSE "127.0.0.1"
    IN [apiKey |-> key,
        apiHash |-> sha256_digest(Buffer_from_ascii(key)),
        host |-> host,
        noAuth |-> (o.noAuth.type = "bool" /\ o.noAuth.v) \/ Not(o.apiKey)]

\* new HTTPOptions(options): the defaults, then fromOptions(); `!options.apiKey`
\* holds for a key left out and for the empty string
HTTPOptions(o) ==
    LET key == IF o.apiKey.type = "string" THEN o.apiKey.v ELSE randomKey
        host == IF o.host.type = "string" THEN o.host.v ELSE "127.0.0.1"
        set == o.noAuth.type = "bool" /\ o.noAuth.v
    IN [apiKey |-> key,
        apiHash |-> sha256_digest(Buffer_from_ascii(key)),
        host |-> host,
        noAuth |-> IF Not(o.apiKey) /\ host \in Loopback THEN TRUE ELSE set]

\* this.options.apiHash
apiHash == HTTPOptions(options).apiHash

\* no request served yet; no client yet
NoRequest == [route |-> "none", name |-> NoName, store |-> FALSE, status |-> 0,
              body |-> JsNull]
NoClient == [pc |-> "constructed", connected |-> FALSE, password |-> <<>>, sent |-> <<>>]

\* the objects as their constructors leave them, the store holding `d`,
\* `members` the adds that built it
Built(d, members) ==
    /\ db = d
    /\ prev = d
    /\ batch = NoBatch
    /\ last = NoCall
    /\ calls = 0
    /\ live = members
    /\ ever = members
    /\ tipped = JsNull
    /\ pc = "idle"
    /\ block = NoBlock
    /\ events = <<>>
    /\ outputs = 0
    /\ seen = {}
    /\ failed = FALSE
    /\ sockets = [s \in Sockets |-> NoSocket]
    /\ hook = NoHook
    /\ inbox = NoInbox
    /\ heard = [s \in {} |-> {}]
    /\ running = {}
    /\ tasks = [t \in Tasks |-> NoTask]
    /\ pending = [s \in Sockets |-> FALSE]
    /\ request = NoRequest

\* the plugin opened: the store open, the server listening
Opened ==
    /\ opened = TRUE
    /\ plugin = "open"
    /\ listening = TRUE

StartFrom(d, members) ==
    /\ Built(d, members)
    /\ Opened
    /\ client = NoClient

Start == StartFrom(EmptyDb, {})

\* the server constructed with an API key
Init == Start /\ noAuth = FALSE /\ options = KeyOptions

\* the server's surroundings: the plugin, the HTTP routes, the client, the options
Around == <<plugin, listening, request, client, options>>

HandlerVars ==
    <<pc, block, events, outputs, seen, failed, noAuth, sockets, hook, inbox, heard,
      running, tasks, opened, pending, plugin, listening, request, client, options>>

\* a mutating call: the store, the slot and the call record
Mutate(op, name, outpoint, writeOk, r) ==
    /\ calls < MaxCalls
    /\ calls' = calls + 1
    /\ db' = r.db
    /\ prev' = db
    /\ batch' = r.batch
    /\ last' = Call(op, name, outpoint, writeOk, r)
    /\ UNCHANGED HandlerVars

Added(kind, name, outpoint, r) ==
    IF r.ret = JsBool(TRUE)
    THEN /\ live' = live \cup {<<kind, name, outpoint>>}
         /\ ever' = ever \cup {<<kind, name, outpoint>>}
    ELSE UNCHANGED <<live, ever>>

Removed(kind, name, outpoint, r) ==
    /\ live' = IF r.ret = JsBool(TRUE) THEN live \ {<<kind, name, outpoint>>} ELSE live
    /\ UNCHANGED ever

CallPutTip ==
    \E hash \in Hashes, writeOk \in BOOLEAN :
        /\ Mutate("putTip", NoName, [hash |-> hash, index |-> 0], writeOk,
                  putTip(db, batch, hash, writeOk))
        /\ tipped' = IF writeOk THEN JsBuf(hash) ELSE tipped
        /\ UNCHANGED <<live, ever>>

CallAddBid ==
    \E name \in Names, outpoint \in Outpoints, writeOk \in BOOLEAN :
        LET r == addBid(db, batch, name, outpoint, writeOk)
        IN /\ Mutate("addBid", name, outpoint, writeOk, r)
           /\ Added("bid", name, outpoint, r)
           /\ UNCHANGED tipped

CallRemoveBid ==
    \E name \in Names, outpoint \in Outpoints, writeOk \in BOOLEAN :
        LET r == removeBid(db, batch, name, outpoint, writeOk)
        IN /\ Mutate("removeBid", name, outpoint, writeOk, r)
           /\ Removed("bid", name, outpoint, r)
           /\ UNCHANGED tipped

CallAddReveal ==
    \E name \in Names, outpoint \in Outpoints, writeOk \in BOOLEAN :
        LET r == addReveal(db, batch, name, outpoint, writeOk)
        IN /\ Mutate("addReveal", name, outpoint, writeOk, r)
           /\ Added("reveal", name, outpoint, r)
           /\ UNCHANGED tipped

CallRemoveReveal ==
    \E name \in Names, outpoint \in Outpoints, writeOk \in BOOLEAN :
        LET r == removeReveal(db, batch, name, outpoint, writeOk)
        IN /\ Mutate("removeReveal", name, outpoint, writeOk, r)
           /\ Removed("reveal", name, outpoint, r)
           /\ UNCHANGED tipped

CallWipe ==
    \E writeOk \in BOOLEAN :
        LET r == wipe(db, batch, writeOk)
        IN /\ Mutate("wipe", NoName, NoOutpoint, writeOk, r)
           /\ live' = IF r.ret = JsUndefined THEN {} ELSE live
           /\ UNCHANGED <<ever, tipped>>

Next ==
    \/ CallPutTip
    \/ CallAddBid
    \/ CallRemoveBid
    \/ CallAddReveal
    \/ CallRemoveReveal
    \/ CallWipe

Spec == Init /\ [][Next]_vars

(***************************************************************************)
(* AuctionDB called by concurrent callers. A call runs in the pieces its   *)
(* awaits cut it into: the read of the counter (await getBidCount), then   *)
(* start(), the put/del calls and commit() up to batch.write(), then the   *)
(* write itself, then the rest of commit() and the return. Between two     *)
(* pieces another caller's piece, or close(), may run.                     *)
(***************************************************************************)
TaskOps == {"addBid", "removeBid"}

\* the value of a call that is waiting for its write
JsPending == [type |-> "pending"]

\* the store the callers find: addBid('a', {H1, 0}) and addBid('a', {H1, 1}) done
SeededMembers == {<<"bid", <<97>>, [hash |-> H1, index |-> 0]>>,
                  <<"bid", <<97>>, [hash |-> H1, index |-> 1]>>}
Seeded ==
    addBid(addBid(EmptyDb, NoBatch, <<97>>, [hash |-> H1, index |-> 0], TRUE).db,
           NoBatch, <<97>>, [hash |-> H1, index |-> 1], TRUE).db

\* faulty variant: the counter is put directly, only the membership key is batched
addBid_stage_counterFirst(d, bt, name, outpoint, got) ==
    LET count == (IF Not(got) THEN 0 ELSE got.n) + 1
    IN IF bt # NoBatch THEN Result(d, bt, JsBN(count), JsThrow)
       ELSE Result(db_put(d, b_encode(name), BN_encode(count)),
                   batch_put(start(bt), B_encode(name, outpoint.hash, outpoint.index), <<>>),
                   JsBN(count), JsPending)

\* addBid from the counter read to the call of batch.write()
addBid_stage(d, bt, name, outpoint, got) ==
    LET count == (IF Not(got) THEN 0 ELSE got.n) + 1
    IN IF bt # NoBatch THEN Result(d, bt, JsBN(count), JsThrow)
       ELSE LET b1 == batch_put(start(bt), b_encode(name), BN_encode(count))
                b2 == batch_put(b1, B_encode(name, outpoint.hash, outpoint.index), <<>>)
            IN Result(d, b2, JsBN(count), JsPending)

\* removeBid from the counter read to the call of batch.write()
removeBid_stage(d, bt, name, outpoint, got) ==
    IF Not(got) THEN Result(d, bt, JsNull, JsNull)
    ELSE LET count == got.n - 1
         IN IF bt # NoBatch THEN Result(d, bt, JsBN(count), JsThrow)
            ELSE LET b1 == batch_put(start(bt), b_encode(name), BN_encode(count))
                     b2 == batch_del(b1, B_encode(name, outpoint.hash, outpoint.index))
                 IN Result(d, b2, JsBN(count), JsPending)

stage(op, d, bt, name, outpoint, got) ==
    IF op = "addBid" THEN addBid_stage(d, bt, name, outpoint, got)
    ELSE removeBid_stage(d, bt, name, outpoint, got)

\* commit() after the write and the return of the call: addBid gives null,
\* removeBid false for a failed write
commit_end(op, ok) ==
    IF ok THEN JsBool(TRUE) ELSE IF op = "addBid" THEN JsNull ELSE JsBool(FALSE)

InFlight(t) == tasks[t].pc \in {"got", "write", "written"}

TaskFrame ==
    /\ prev' = db
    /\ UNCHANGED <<calls, tipped, pc, block, events, outputs, seen, failed, noAuth,
                   sockets, hook, inbox, heard, running, pending, plugin, listening,
                   request, client, options>>

\* the call up to the read of the counter; on a closed store db.get() rejects
taskCall(t) ==
    \E op \in TaskOps, name \in Names, outpoint \in Outpoints :
        LET others == {u \in Tasks \ {t} : InFlight(u)}
            rec == [NoTask EXCEPT !.op = op, !.name = name, !.outpoint = outpoint]
        IN /\ tasks[t].pc = "idle"
           /\ tasks' = [u \in Tasks |->
                 IF u = t
                 THEN IF opened
                      THEN [rec EXCEPT !.pc = "got", !.count = getBidCount(db, name),
                                       !.raced = others # {}]
                      ELSE [rec EXCEPT !.pc = "done", !.ret = JsThrow]
                 ELSE IF u \in others /\ opened THEN [tasks[u] EXCEPT !.raced = TRUE]
                 ELSE tasks[u]]
           /\ last' = NoCall
           /\ UNCHANGED <<db, batch, live, ever, opened>>
           /\ TaskFrame

\* after the read: start(), put/del, commit() up to batch.write(); on a closed
\* store db.batch() throws
taskStage(t) ==
    LET me == tasks[t]
        r == stage(me.op, db, batch, me.name, me.outpoint, me.count)
    IN /\ me.pc = "got"
       /\ IF ~opened
          THEN /\ tasks' = [tasks EXCEPT ![t].pc = "done", ![t].ret = JsThrow]
               /\ UNCHANGED <<db, batch>>
          ELSE /\ tasks' = [tasks EXCEPT
                     ![t].pc = IF r.ret = JsPending THEN "write" ELSE "done",
                     ![t].count = r.count, ![t].ret = r.ret]
               /\ db' = r.db
               /\ batch' = r.batch
       /\ last' = NoCall
       /\ UNCHANGED <<live, ever, opened>>
       /\ TaskFrame

\* batch.write(): all the buffered operations or none; fails on a closed store
taskWrite(t) ==
    \E ok \in (IF opened THEN BOOLEAN ELSE {FALSE}) :
        /\ tasks[t].pc = "write"
        /\ db' = IF ok THEN batch_write(db, batch) ELSE db
        /\ tasks' = [tasks EXCEPT ![t].pc = "written", ![t].ok = ok]
        /\ last' = NoCall
        /\ UNCHANGED <<batch, live, ever, opened>>
        /\ TaskFrame

\* faulty variant: commit() clears the slot only after a write that succeeded
taskReturn_keepsFailedBatch(t) ==
    LET me == tasks[t]
        ret == commit_end(me.op, me.ok)
        member == <<"bid", me.name, me.outpoint>>
    IN /\ me.pc = "written"
       /\ batch' = IF me.ok THEN NoBatch ELSE batch
       /\ tasks' = [tasks EXCEPT ![t].pc = "done", ![t].ret = ret]
       /\ last' = Call(me.op, me.name, me.outpoint, me.ok,
                       Result(db, NoBatch, me.count, ret))
       /\ live' = IF ~me.ok THEN live
                  ELSE IF me.op = "addBid" THEN live \cup {member} ELSE live \ {member}
       /\ ever' = IF me.ok /\ me.op = "addBid" THEN ever \cup {member} ELSE ever
       /\ UNCHANGED <<db, opened>>
       /\ TaskFrame

\* the rest of commit(): the slot is cleared; the call returns
taskReturn(t) ==
    LET me == tasks[t]
        ret == commit_end(me.op, me.ok)
        member == <<"bid", me.name, me.outpoint>>
    IN /\ me.pc = "written"
       /\ batch' = NoBatch
       /\ tasks' = [tasks EXCEPT ![t].pc = "done", ![t].ret = ret]
       /\ last' = Call(me.op, me.name, me.outpoint, me.ok,
                       Result(db, NoBatch, me.count, ret))
       /\ live' = IF ~me.ok THEN live
                  ELSE IF me.op = "addBid" THEN live \cup {member} ELSE live \ {member}
       /\ ever' = IF me.ok /\ me.op = "addBid" THEN ever \cup {member} ELSE ever
       /\ UNCHANGED <<db, opened>>
       /\ TaskFrame

\* AuctionDB.close(): await this.db.close()
close ==
    /\ opened
    /\ opened' = FALSE
    /\ last' = NoCall
    /\ UNCHANGED <<db, batch, live, ever, tasks>>
    /\ TaskFrame

TaskInit == StartFrom(Seeded, SeededMembers) /\ noAuth = FALSE /\ options = KeyOptions

TaskNext ==
    \/ \E t \in Tasks : taskCall(t)
    \/ \E t \in Tasks : taskStage(t)
    \/ \E t \in Tasks : taskWrite(t)
    \/ \E t \in Tasks : taskReturn(t)
    \/ close

TaskSpec == TaskInit /\ [][TaskNext]_vars

(***************************************************************************)
(* The event fan-out (HTTP.initSockets): a listener on each forwarded      *)
(* event sends it to the sockets joined to 'auction-notify'.               *)
(***************************************************************************)
ForwardedEvents == {"bid", "reveal", "register", "bid burned", "open", "big spend"}

\* this.channel('auction-notify'): the sockets joined to it
channel == {s \in Sockets : sockets[s].watching}

\* faulty variant: the message goes to every socket, in the channel or not
to_everySocket(chan, e) == [s \in Sockets |-> <<e>>]

\* this.to('auction-notify', event, data): one message to each socket of the channel
to(chan, e) == [s \in Sockets |-> IF s \in chan THEN <<e>> ELSE <<>>]

\* the listener bound to a forwarded event
listener(e) == IF channel = {} THEN NoInbox ELSE to(channel, e)

\* this.emit(event, data): the listeners of the event run, if it has any
emit(e) == IF e.event \in ForwardedEvents THEN listener(e) ELSE NoInbox

\* faulty variant: the handler goes on only when every socket has taken what
\* it was sent
emitReturns_onAck(waiting) == \A s \in Sockets : ~waiting[s]

\* this.emit() runs the listeners and returns; this.to() fires the message at
\* each socket and waits for no answer: the handler's next step needs nothing
\* from the consumers
emitReturns(waiting) == TRUE

RECURSIVE EmitAll(_)
EmitAll(emitted) ==
    IF emitted = <<>> THEN NoInbox
    ELSE LET h == emit(Head(emitted))
             t == EmitAll(Tail(emitted))
         IN [s \in Sockets |-> h[s] \o t[s]]

(***************************************************************************)
(* The chain 'connect' handler of the HTTP server. The block is read as    *)
(* the handler walks it: each step takes the next output (of the current   *)
(* transaction or the first of a new one), its covenant, the name state    *)
(* the chain returns for it, and its value. `io` is what the store does    *)
(* during the step: "ok", "writeFails" or "readFails".                     *)
(***************************************************************************)
BlockHashes == {Hash(1), Hash(2)}
Values == {5}
SameTx == <<>>
Ios == {"ok", "writeFails", "readFails"}

\* the inputs of a run of the handler: names, output values, store outcomes
BlockIn == [names |-> Names, values |-> Values, ios |-> Ios]

\* the threshold the operator asks for in the options given to the server
configuredBigSpend == JsBN(5)

\* HTTPOptions sets no bigSpendValue: this.options.bigSpendValue is undefined
bigSpendValue == JsUndefined

\* JavaScript `value >= threshold`: false against undefined
GE(value, threshold) ==
    IF threshold.type = "undefined" THEN FALSE ELSE value >= threshold.n

Event(event, name, outpoint, value) ==
    [event |-> event, name |-> name, outpoint |-> outpoint, value |-> value]

stats == [count |-> 0, opens |-> 0, bids |-> 0, reveals |-> 0]

\* a method whose `await this.db.get(key)` rejects: it rejects too, nothing written
Rejected(d, bt) == Result(d, bt, JsNull, JsThrow)

\* the 'bid' and 'reveal' messages among `msgs`, as <<kind, name, outpoint>>
Members(msgs) ==
    {<<m.event, m.name, m.outpoint>> : m \in {x \in Range(msgs) : x.event \in Kinds}}

Emitted(emitted) ==
    /\ events' = emitted
    /\ inbox' = EmitAll(emitted)
    /\ hook' = NoHook
    /\ heard' = IF block.hash = <<>> THEN [s \in channel |-> {}]
                ELSE [s \in DOMAIN heard |-> heard[s] \cup Members(EmitAll(emitted)[s])]
    /\ pending' = [s \in Sockets |-> pending[s] \/ EmitAll(emitted)[s] # <<>>]
    /\ UNCHANGED <<noAuth, sockets>>

\* the history of the step: the store outcome and the BID / REVEAL outputs of
\* the block it has made known
Recorded(io, outs) ==
    /\ failed' = (failed \/ io # "ok")
    /\ seen' = IF failed \/ io # "ok" THEN {} ELSE seen \cup outs

\* faulty variant: the listener returns to the chain before its work is done
settled_atOnce(p) == TRUE

\* The listener is an async function: the promise it returns to the chain
\* settles when its body has finished or thrown. The chain awaits that promise
\* before it connects the next block.
settled(p) == p = "idle"

\* chain.on('connect'), up to the loop: putTip(block.hash()), result ignored
Connect(in) ==
    \E hash \in BlockHashes \ {block.hash}, io \in in.ios \ {"readFails"} :
        LET writeOk == io = "ok"
            r == putTip(db, batch, hash, writeOk)
        IN /\ settled(pc)
           /\ running' = running \cup {hash}
           /\ db' = r.db
           /\ prev' = db
           /\ batch' = r.batch
           /\ last' = Call("putTip", NoName, [hash |-> hash, index |-> 0], writeOk, r)
           /\ tipped' = IF writeOk THEN JsBuf(hash) ELSE tipped
           /\ Recorded(io, {})
           /\ block' = [NoBlock EXCEPT !.hash = hash, !.step = "connect", !.io = io]
           /\ Emitted(<<>>)
           /\ pc' = "outputs"
           /\ UNCHANGED <<calls, live, ever, outputs, tasks, opened, Around>>

\* the handler rejects: the rest of the block is not walked
Throw(blk, emitted) ==
    /\ block' = [blk EXCEPT !.threw = TRUE]
    /\ Emitted(emitted)
    /\ pc' = "idle"
    /\ running' = running \ {blk.hash}

Continue(blk, emitted) ==
    /\ block' = blk
    /\ Emitted(emitted)
    /\ pc' = "outputs"
    /\ UNCHANGED running

NoMutation ==
    /\ last' = NoCall
    /\ prev' = db
    /\ UNCHANGED <<db, batch, live, ever, tipped>>

\* One iteration of the loops over block.txs and tx.outputs: the output is the
\* next one of the current transaction, or the first one of a new transaction.
TxIds == {H1}

Walk(tx) ==
    /\ pc = "outputs"
    /\ emitReturns(pending)
    /\ outputs < MaxOutputs
    /\ outputs' = outputs + 1
    /\ tx = SameTx => block.txid # <<>>
    /\ UNCHANGED <<calls, tasks, opened, Around>>

At(tx) ==
    [block EXCEPT !.txid = IF tx = SameTx THEN block.txid ELSE tx,
                  !.index = IF tx = SameTx THEN block.index + 1 ELSE 0]

OutpointAt(tx) == [hash |-> At(tx).txid, index |-> At(tx).index]

\* the output the step looks at
Output(tx, step, value, coins) ==
    [At(tx) EXCEPT !.step = step, !.value = value, !.coins = coins, !.io = "ok",
                   !.name = NoName]

\* what the block holds after an output at which the handler rejects: nothing,
\* or one more BID output of the same transaction
Rest(tx, names) ==
    {{}} \cup {{<<"bid", n, [hash |-> At(tx).txid, index |-> At(tx).index + 1]>>} :
               n \in names}

\* the REGISTER branch: both counts are read, 'register' is emitted, then the
\* counts are compared; `adb` is not a binding of the handler's scope
register(blk, name, outpoint, value, readOk) ==
    LET bidCount == getBidCount(db, name)
        revealCount == getRevealCount(db, name)
        emitted == <<Event("register", name, outpoint, value)>>
    IN /\ NoMutation
       /\ IF ~readOk THEN Throw(blk, <<>>)
          ELSE IF bidCount.type # "bn" \/ revealCount.type # "bn"
          THEN Throw(blk, emitted)
          ELSE IF bidCount.n = revealCount.n THEN Continue(blk, emitted)
          ELSE IF revealCount.n > bidCount.n THEN Continue(blk, emitted)
          ELSE Throw(blk, emitted)

\* covenant.isNone()
None(in) ==
    \E tx \in TxIds \cup {SameTx}, value \in in.values :
        /\ Walk(tx)
        /\ NoMutation
        /\ UNCHANGED <<seen, failed>>
        /\ Continue(Output(tx, "none", value, {}),
                    IF GE(value, bigSpendValue)
                    THEN <<Event("big spend", NoName, OutpointAt(tx), value)>>
                    ELSE <<>>)

\* faulty variant: a missing name state ends the handler
NoNameState_aborts(in) ==
    \E tx \in TxIds \cup {SameTx} :
        /\ Walk(tx)
        /\ NoMutation
        /\ UNCHANGED <<seen, failed>>
        /\ Throw(Output(tx, "nons", 0, {}), <<>>)

\* getNameState() returns nothing for the covenant's name hash
NoNameState(in) ==
    \E tx \in TxIds \cup {SameTx} :
        /\ Walk(tx)
        /\ NoMutation
        /\ UNCHANGED <<seen, failed>>
        /\ Continue(Output(tx, "nons", 0, {}), <<>>)

\* an addBid / addReveal call of the handler and what follows it
Index(tx, kind, name, value, io, r, emitted) ==
    /\ Walk(tx)
    /\ db' = r.db
    /\ prev' = db
    /\ batch' = r.batch
    /\ last' = Call(IF kind = "bid" THEN "addBid" ELSE "addReveal",
                    name, OutpointAt(tx), io # "writeFails", r)
    /\ Added(kind, name, OutpointAt(tx), r)
    /\ Recorded(io, {<<kind, name, OutpointAt(tx)>>})
    /\ UNCHANGED tipped
    /\ IF r.ret = JsThrow
       THEN Throw([Output(tx, kind, value, {}) EXCEPT !.io = io], <<>>)
       ELSE Continue([Output(tx, kind, value, {}) EXCEPT !.io = io], emitted)

\* faulty variant: 'bid' is emitted only when the bid was indexed
Bid_emitsIfIndexed(in) ==
    \E tx \in TxIds \cup {SameTx}, name \in in.names, value \in in.values, io \in in.ios :
        LET r == IF io = "readFails" THEN Rejected(db, batch)
                 ELSE addBid(db, batch, name, OutpointAt(tx), io = "ok")
        IN Index(tx, "bid", name, value, io, r,
                 IF Not(r.ret) THEN <<>>
                 ELSE <<Event("bid", name, OutpointAt(tx), value)>>)

\* covenant.isBid()
Bid(in) ==
    \E tx \in TxIds \cup {SameTx}, name \in in.names, value \in in.values, io \in in.ios :
        LET r == IF io = "readFails" THEN Rejected(db, batch)
                 ELSE addBid(db, batch, name, OutpointAt(tx), io = "ok")
        IN Index(tx, "bid", name, value, io, r,
                 <<Event("bid", name, OutpointAt(tx), value)>>)

\* faulty variant: a REVEAL output takes the name's bid at the same outpoint
\* out of the index
Reveal_removesBid(in) ==
    \E tx \in TxIds \cup {SameTx}, name \in in.names, value \in in.values, io \in in.ios :
        LET r == IF io = "readFails" THEN Rejected(db, batch)
                 ELSE removeBid(db, batch, name, OutpointAt(tx), io = "ok")
        IN /\ Walk(tx)
           /\ db' = r.db
           /\ prev' = db
           /\ batch' = r.batch
           /\ last' = Call("removeBid", name, OutpointAt(tx), io # "writeFails", r)
           /\ Removed("bid", name, OutpointAt(tx), r)
           /\ Recorded(io, {})
           /\ UNCHANGED tipped
           /\ IF r.ret = JsThrow
              THEN Throw([Output(tx, "reveal", value, {}) EXCEPT !.io = io], <<>>)
              ELSE Continue([Output(tx, "reveal", value, {}) EXCEPT !.io = io],
                            <<Event("reveal", name, OutpointAt(tx), value)>>)

\* covenant.isReveal()
Reveal(in) ==
    \E tx \in TxIds \cup {SameTx}, name \in in.names, value \in in.values, io \in in.ios :
        LET r == IF io = "readFails" THEN Rejected(db, batch)
                 ELSE addReveal(db, batch, name, OutpointAt(tx), io = "ok")
        IN Index(tx, "reveal", name, value, io, r,
                 <<Event("reveal", name, OutpointAt(tx), value)>>)

\* covenant.isRegister(); the chain's coins matter when the bids outnumber the
\* reveals
Register(in) ==
    \E tx \in TxIds \cup {SameTx}, name \in in.names, value \in in.values,
       io \in in.ios \ {"writeFails"} :
        LET bids == Range(Items(getBids(db, name)))
            more == CountOf(getBidCount(db, name)) > CountOf(getRevealCount(db, name))
        IN \E coins \in (IF more THEN SUBSET bids ELSE {{}}) :
            /\ Walk(tx)
            /\ register([Output(tx, "register", value, coins) EXCEPT !.io = io], name,
                        OutpointAt(tx), value, io = "ok")
            /\ IF pc' = "idle"
               THEN \E rest \in Rest(tx, {name}) : Recorded(io, rest)
               ELSE Recorded(io, {})

\* faulty variant: the revoked name's bid counter is deleted
Revoke_dropsCounter(in) ==
    \E tx \in TxIds \cup {SameTx}, name \in in.names, value \in in.values :
        /\ Walk(tx)
        /\ last' = NoCall
        /\ prev' = db
        /\ db' = db_del(db, b_encode(name))
        /\ UNCHANGED <<batch, live, ever, tipped, seen, failed>>
        /\ Continue([Output(tx, "revoke", value, {}) EXCEPT !.name = name],
                    <<Event("revoke", name, OutpointAt(tx), value)>>)

\* covenant.isRevoke()
Revoke(in) ==
    \E tx \in TxIds \cup {SameTx}, name \in in.names, value \in in.values :
        /\ Walk(tx)
        /\ NoMutation
        /\ UNCHANGED <<seen, failed>>
        /\ Continue([Output(tx, "revoke", value, {}) EXCEPT !.name = name],
                    <<Event("revoke", name, OutpointAt(tx), value)>>)

\* faulty variant: an OPEN output emits 'open'
Other_emitsOpen(in) ==
    \E tx \in TxIds \cup {SameTx}, name \in in.names :
        /\ Walk(tx)
        /\ NoMutation
        /\ UNCHANGED <<seen, failed>>
        /\ Continue(Output(tx, "other", 0, {}),
                    <<Event("open", name, OutpointAt(tx), 0)>>)

\* any other covenant with a name state (OPEN, ...): no branch of the handler
Other(in) ==
    \E tx \in TxIds \cup {SameTx} :
        /\ Walk(tx)
        /\ NoMutation
        /\ UNCHANGED <<seen, failed>>
        /\ Continue(Output(tx, "other", 0, {}), <<>>)

\* after the loops: this.emit('block stats', stats)
blockStats ==
    /\ pc = "outputs"
    /\ emitReturns(pending)
    /\ pc' = "idle"
    /\ block' = [block EXCEPT !.step = "stats", !.value = 0, !.coins = {}, !.io = "ok",
                               !.name = NoName]
    /\ Emitted(<<[event |-> "block stats", stats |-> stats]>>)
    /\ NoMutation
    /\ running' = running \ {block.hash}
    /\ UNCHANGED <<calls, outputs, seen, failed, tasks, opened, Around>>

connect == Connect(BlockIn)
outputNone == None(BlockIn)
outputNoNameState == NoNameState(BlockIn)
outputBid == Bid(BlockIn)
outputReveal == Reveal(BlockIn)
outputRegister == Register(BlockIn)
outputRevoke == Revoke(BlockIn)
outputOther == Other(BlockIn)

BlockNext ==
    \/ connect
    \/ outputNone
    \/ outputNoNameState
    \/ outputBid
    \/ outputReveal
    \/ outputRegister
    \/ outputRevoke
    \/ outputOther
    \/ blockStats

BlockSpec == Init /\ [][BlockNext]_vars

(***************************************************************************)
(* The websocket hooks (HTTP.handleSocket, HTTP.handleAuth) next to the    *)
(* handler: a hook runs between two steps of the handler. A key is the     *)
(* string a client sends, written as its character codes.                  *)
(***************************************************************************)
MaxKeyLen == 255

safeEqual(a, b) == a = b

\* the API key, a wrong key, a key with the same low bytes as the API key, no
\* key at all (valid.str(0, '')), a key of 256 characters
Keys == {apiKey, <<115, 52>>, <<371, 51>>, <<>>, [i \in 1..MaxKeyLen + 1 |-> 115]}

HookResult(sock, ret) == [socket |-> sock, ret |-> ret]

\* handleAuth(socket): the watch / unwatch hooks are installed
handleAuth(sock) == [sock EXCEPT !.hooks = TRUE]

\* faulty variant: the hash of the key is not compared
authHook_noCompare(sock, key) ==
    IF sock.auth THEN HookResult(sock, JsThrow)
    ELSE IF ~noAuth /\ Len(key) > MaxKeyLen THEN HookResult(sock, JsThrow)
    ELSE HookResult(handleAuth([sock EXCEPT !.auth = TRUE]), JsNull)

\* the 'auth' hook
authHook(sock, key) ==
    IF sock.auth THEN HookResult(sock, JsThrow)
    ELSE IF ~noAuth /\ Len(key) > MaxKeyLen THEN HookResult(sock, JsThrow)
    ELSE IF ~noAuth /\ ~safeEqual(sha256_digest(Buffer_from_ascii(key)), apiHash)
    THEN HookResult(sock, JsThrow)
    ELSE HookResult(handleAuth([sock EXCEPT !.auth = TRUE]), JsNull)

\* the 'watch auction-notify' hook; a call of a hook that is not installed is
\* answered with an error
watchHook(sock) ==
    IF ~sock.hooks THEN HookResult(sock, JsThrow)
    ELSE HookResult([sock EXCEPT !.watching = TRUE], JsNull)

\* the 'unwatch auction-notify' hook
unwatchHook(sock) ==
    IF ~sock.hooks THEN HookResult(sock, JsThrow)
    ELSE HookResult([sock EXCEPT !.watching = FALSE], JsNull)

\* a socket call: the handler and the store are left alone, nothing is sent
SocketCall(s, call, key, r) ==
    /\ sockets' = [sockets EXCEPT ![s] = r.socket]
    /\ hook' = [socket |-> s, call |-> call, key |-> key, ret |-> r.ret]
    /\ events' = <<>>
    /\ inbox' = NoInbox
    /\ heard' = [x \in {y \in DOMAIN heard : sockets'[y].watching} |-> heard[x]]
    /\ block' = [block EXCEPT !.step = "hook", !.value = 0, !.coins = {}, !.io = "ok",
                               !.name = NoName]
    /\ NoMutation
    /\ UNCHANGED <<calls, pc, outputs, seen, failed, noAuth, running, tasks, opened,
                   pending, plugin, listening, request, options>>

Auth(socks, keys) ==
    \E s \in socks, key \in keys :
        LET r == authHook(sockets[s], key)
            matches == sha256_digest(Buffer_from_ascii(key)) = apiHash
        IN /\ SocketCall(s, "auth", key,
                         [r EXCEPT !.socket.proved = sockets[s].proved \/ matches])
           /\ UNCHANGED client

Watch(socks) ==
    \E s \in socks :
        /\ SocketCall(s, "watch auction-notify", <<>>, watchHook(sockets[s]))
        /\ UNCHANGED client

Unwatch(socks) ==
    \E s \in socks :
        /\ SocketCall(s, "unwatch auction-notify", <<>>, unwatchHook(sockets[s]))
        /\ UNCHANGED client

auth == Auth(Sockets, Keys)
watch == Watch(Sockets)
unwatch == Unwatch(Sockets)

\* The hooks alone: the server constructed with an API key, or without any on
\* a local host (noAuth), and clients calling with any key.
HookInit ==
    /\ Start
    /\ noAuth \in BOOLEAN
    /\ options = [KeyOptions EXCEPT !.noAuth = JsBool(noAuth)]

HookNext ==
    \/ auth
    \/ watch
    \/ unwatch

HookSpec == HookInit /\ [][HookNext]_vars

\* The hooks of a server constructed with any of the options.
AuthInit ==
    /\ Start
    /\ options \in Options
    /\ noAuth = HTTPOptions(options).noAuth

AuthSpec == AuthInit /\ [][HookNext]_vars

\* Blocks about one name whose store operations all succeed; one client that
\* holds the API key calls in between, the other socket never calls.
SocketIn == [names |-> {<<97>>}, values |-> Values, ios |-> {"ok"}]
Callers == {1}

SocketNext ==
    \/ Connect(SocketIn)
    \/ None(SocketIn)
    \/ NoNameState(SocketIn)
    \/ Bid(SocketIn)
    \/ Reveal(SocketIn)
    \/ Register(SocketIn)
    \/ Revoke(SocketIn)
    \/ Other(SocketIn)
    \/ blockStats
    \/ Auth(Callers, {apiKey})
    \/ Watch(Callers)
    \/ Unwatch(Callers)

SocketSpec == Init /\ [][SocketNext]_vars

\* the consumer behind a websocket takes the messages sent to it
receive(s) ==
    /\ pending[s]
    /\ pending' = [pending EXCEPT ![s] = FALSE]
    /\ events' = <<>>
    /\ inbox' = NoInbox
    /\ hook' = NoHook
    /\ block' = [block EXCEPT !.step = "receive", !.value = 0, !.coins = {}, !.io = "ok",
                               !.name = NoName]
    /\ NoMutation
    /\ UNCHANGED <<calls, pc, outputs, seen, failed, noAuth, running, tasks, opened,
                   sockets, heard, Around>>

\* Blocks of BID and REVOKE outputs of one name; two clients that hold the API key join
\* the channel, and each takes its messages when it likes, or never.
ConsumerNext ==
    \/ Connect(SocketIn)
    \/ Bid(SocketIn)
    \/ Revoke(SocketIn)
    \/ blockStats
    \/ Auth(Sockets, {apiKey})
    \/ Watch(Sockets)
    \/ \E s \in Sockets : receive(s)

ConsumerSpec == Init /\ [][ConsumerNext]_vars

(***************************************************************************)
(* The Plugin's life (lib/plugin.js) and the query routes of the HTTP      *)
(* server. http.open() makes the server listen, http.close() stops it      *)
(* (bweb); a read of a store that is not open rejects (bdb), and the       *)
(* server answers a request whose handler rejects with status 500.         *)
(***************************************************************************)
AroundFrame ==
    /\ events' = <<>>
    /\ inbox' = NoInbox
    /\ hook' = NoHook
    /\ NoMutation
    /\ UNCHANGED <<calls, pc, block, outputs, seen, failed, noAuth, sockets, heard,
                   running, tasks, pending, options>>

\* Plugin.open(), first await: this.http.open()
httpOpen ==
    /\ plugin = "constructed"
    /\ plugin' = "httpOpen"
    /\ listening' = TRUE
    /\ UNCHANGED <<opened, request, client>>
    /\ AroundFrame

\* Plugin.open(), second await: this.adb.open()
adbOpen ==
    /\ plugin = "httpOpen"
    /\ plugin' = "open"
    /\ opened' = TRUE
    /\ UNCHANGED <<listening, request, client>>
    /\ AroundFrame

\* Plugin.close(), first await: this.adb.close(); the node closes the plugin
\* between two blocks
adbClose ==
    /\ plugin = "open"
    /\ pc = "idle"
    /\ plugin' = "adbClosed"
    /\ opened' = FALSE
    /\ UNCHANGED <<listening, request, client>>
    /\ AroundFrame

\* Plugin.close(), second await: this.http.close()
httpClose ==
    /\ plugin = "adbClosed"
    /\ plugin' = "closed"
    /\ listening' = FALSE
    /\ UNCHANGED <<opened, request, client>>
    /\ AroundFrame

Served(route, name, body) ==
    /\ listening
    /\ request' = [route |-> route, name |-> name, store |-> opened,
                   status |-> IF opened THEN 200 ELSE 500,
                   body |-> IF opened THEN body ELSE JsThrow]
    /\ UNCHANGED <<plugin, listening, opened, client>>
    /\ AroundFrame

\* GET /auction-notify: the tip
getNotifyInfo == Served("/auction-notify", NoName, [tip |-> getTip(db)])

\* GET /auction-notify/name/:name: the bids and reveals of the name
getNotifyName ==
    \E name \in Names :
        Served("/auction-notify/name/:name", name,
               [name |-> name, bids |-> getBids(db, name), reveals |-> getReveals(db, name)])

\* the plugin constructed by the node, not opened yet
PluginInit ==
    /\ Built(EmptyDb, {})
    /\ opened = FALSE
    /\ plugin = "constructed"
    /\ listening = FALSE
    /\ client = NoClient
    /\ noAuth = FALSE
    /\ options = KeyOptions

\* The node opens the plugin, connects blocks of BID outputs of one name while
\* it is open, and closes it; requests arrive whenever the server listens.
PluginNext ==
    \/ httpOpen
    \/ adbOpen
    \/ plugin = "open" /\ Connect(SocketIn)
    \/ plugin = "open" /\ Bid(SocketIn)
    \/ plugin = "open" /\ blockStats
    \/ adbClose
    \/ httpClose
    \/ getNotifyInfo
    \/ getNotifyName

PluginSpec == PluginInit /\ [][PluginNext]_vars

(***************************************************************************)
(* AuctionNotifyClient (lib/client.js) on websocket 1. super.open()        *)
(* connects the socket and awaits this.auth(); super.close() destroys the  *)
(* socket (bcurl), and the server then drops the socket from its channels  *)
(* (bweb). A call made on a socket that is not connected reaches no hook.  *)
(***************************************************************************)
Me == 1

\* the passwords a client may be given: the API key or a wrong key
Passwords == {apiKey, <<115, 52>>}

\* this.call(name, ...): the call, with the connection and the socket's
\* standing at the server when it is made
Sent(call) ==
    [call |-> call, connected |-> client.connected, authed |-> sockets[Me].auth,
     hooks |-> sockets[Me].hooks]

\* open(): super.open(), the socket connects
clientConnect ==
    /\ client.pc = "constructed"
    /\ listening
    /\ client' = [client EXCEPT !.pc = "connected", !.connected = TRUE]
    /\ UNCHANGED <<opened, plugin, listening, request>>
    /\ AroundFrame

\* open(): super.open() awaits this.auth(), which returns this.call('auth',
\* this.password); a rejected call rejects open()
clientAuth ==
    LET r == authHook(sockets[Me], client.password)
        matches == sha256_digest(Buffer_from_ascii(client.password)) = apiHash
    IN /\ client.pc = "connected"
       /\ SocketCall(Me, "auth", client.password,
                     [r EXCEPT !.socket.proved = sockets[Me].proved \/ matches])
       /\ client' = [client EXCEPT !.pc = IF r.ret = JsThrow THEN "failed" ELSE "authed",
                                   !.sent = Append(@, Sent("auth"))]

\* open(): await this.watchAuctionNotify()
clientWatch ==
    /\ client.pc = "authed"
    /\ SocketCall(Me, "watch auction-notify", <<>>, watchHook(sockets[Me]))
    /\ client' = [client EXCEPT !.pc = "open",
                                !.sent = Append(@, Sent("watch auction-notify"))]

\* close(): await super.close(), the socket is destroyed
clientDisconnect ==
    /\ client.pc = "open"
    /\ client' = [client EXCEPT !.pc = "disconnected", !.connected = FALSE]
    /\ sockets' = [sockets EXCEPT ![Me] = [NoSocket EXCEPT !.proved = sockets[Me].proved]]
    /\ heard' = [x \in DOMAIN heard \ {Me} |-> heard[x]]
    /\ events' = <<>>
    /\ inbox' = NoInbox
    /\ hook' = NoHook
    /\ block' = [block EXCEPT !.step = "disconnect", !.value = 0, !.coins = {},
                               !.io = "ok", !.name = NoName]
    /\ NoMutation
    /\ UNCHANGED <<calls, pc, outputs, seen, failed, noAuth, running, tasks, opened,
                   pending, plugin, listening, request, options>>

\* close(): await this.unwatchAuctionNotify(), after super.close()
clientUnwatch ==
    /\ client.pc = "disconnected"
    /\ client' = [client EXCEPT !.pc = "closed",
                                !.sent = Append(@, Sent("unwatch auction-notify"))]
    /\ UNCHANGED <<opened, plugin, listening, request>>
    /\ AroundFrame

\* the server constructed with an API key and opened; a client constructed
\* with a password
ClientInit ==
    /\ Built(EmptyDb, {})
    /\ Opened
    /\ noAuth = FALSE
    /\ options = KeyOptions
    /\ client \in {[NoClient EXCEPT !.password = k] : k \in Passwords}

\* The client opens and closes while blocks of BID outputs of one name are
\* connected.
ClientNext ==
    \/ clientConnect
    \/ clientAuth
    \/ clientWatch
    \/ clientDisconnect
    \/ clientUnwatch
    \/ Connect(SocketIn)
    \/ Bid(SocketIn)
    \/ blockStats

ClientSpec == ClientInit /\ [][ClientNext]_vars

(***************************************************************************)
(* The twitter bot (bin/twitter-bot), a client on websocket 1: the event   *)
(* names it binds. A message invokes the handler bound to its event name,  *)
(* if there is one.                                                        *)
(***************************************************************************)
Bot == 1

\* TwitterBot.init(): the names bound to a handler that tweets
TweetBinds == {"bid", "reveal", "register", "bid burned", "open", "none", "stats"}

\* every name TwitterBot.init() binds
BotBinds == TweetBinds \cup {"block connect"}

\* the event the server emits for what a handler of the bot treats: the 'none'
\* handler treats the outputs without covenant (types.NONE, text.bigSpend), which
\* the server reports as 'big spend'; the 'stats' handler treats the block's
\* statistics, which the server reports as 'block stats'
DomainEvent(b) ==
    CASE b = "none" -> "big spend"
      [] b = "stats" -> "block stats"
      [] OTHER -> b

\* client.bind(name, handler): the handlers the messages `msgs` invoke
Invoked(msgs) == {m \in Range(msgs) : m.event \in BotBinds}

(***************************************************************************)
(* Properties.                                                             *)
(***************************************************************************)

CountQuery(d, kind, name) ==
    IF kind = "bid" THEN getBidCount(d, name) ELSE getRevealCount(d, name)
ListQuery(d, kind, name) ==
    IF kind = "bid" THEN getBids(d, name) ELSE getReveals(d, name)
HasQuery(d, kind, name, outpoint) ==
    IF kind = "bid" THEN hasBid(d, name, outpoint) ELSE hasReveal(d, name, outpoint)
CounterKey(kind, name) == IF kind = "bid" THEN b_encode(name) ELSE r_encode(name)

AddOps == {"addBid", "addReveal"}
RemoveOps == {"removeBid", "removeReveal"}
KindOf(op) == IF op \in {"addBid", "removeBid"} THEN "bid" ELSE "reveal"

\* the last step was a call of one of `ops`
Called(ops) == last.op \in ops

\* C1: for every name and kind the stored counter equals the number of
\* outpoints the list query returns, after any sequence of add/remove calls.
C1_CountEqualsMembers ==
    \A kind \in Kinds, name \in Names :
        CountOf(CountQuery(db, kind, name)) = Len(Items(ListQuery(db, kind, name)))

\* C2: the counter removeBid/removeReveal computes and writes is never below zero.
C2_CountNeverNegative ==
    (Called(RemoveOps) /\ last.writeOk /\ last.count.type = "bn") => last.count.n >= 0

\* C3: a remove call made (on a store whose writes succeed) when the counter is
\* 0 or absent, or for an outpoint that is not a member, changes nothing and
\* returns 'not found' (null).
C3_RemoveNotFoundIsNoOp ==
    (/\ Called(RemoveOps)
     /\ last.writeOk
     /\ \/ CountOf(CountQuery(prev, KindOf(last.op), last.name)) = 0
        \/ ~HasQuery(prev, KindOf(last.op), last.name, last.outpoint).v)
    => (db = prev /\ last.ret = JsNull)

\* C4: the list query returns exactly the outpoints added with success under
\* (name, kind) and not since removed, each once.
C4_ListIsExactlyLive ==
    \A kind \in Kinds, name \in Names :
        LET items == Items(ListQuery(db, kind, name))
        IN /\ Range(items) = {o \in Outpoints : <<kind, name, o>> \in live}
           /\ \A i, j \in 1..Len(items) : items[i] = items[j] => i = j

C4_Witness ==
    /\ last.op = "removeBid"
    /\ last.ret = JsBool(TRUE)
    /\ <<"bid", last.name, last.outpoint>> \in ever
    /\ Len(Items(getBids(db, last.name))) = 1

\* C5: hasMember is true after a successful add of the outpoint, false after a
\* successful remove of it, and false for an outpoint never added under
\* (name, kind).
C5_HasMemberRoundTrip ==
    /\ (last.op \in AddOps /\ last.ret = JsBool(TRUE))
          => HasQuery(db, KindOf(last.op), last.name, last.outpoint) = JsBool(TRUE)
    /\ (last.op \in RemoveOps /\ last.ret = JsBool(TRUE))
          => HasQuery(db, KindOf(last.op), last.name, last.outpoint) = JsBool(FALSE)
    /\ \A kind \in Kinds, name \in Names, o \in Outpoints :
          <<kind, name, o>> \notin ever => HasQuery(db, kind, name, o) = JsBool(FALSE)

C5_Witness ==
    /\ last.op = "removeReveal"
    /\ last.ret = JsBool(TRUE)
    /\ <<"reveal", last.name, last.outpoint>> \in ever
    /\ \E o \in Outpoints : hasReveal(db, last.name, o).v

\* C6: an outpoint added only under name A never appears in the list of another
\* name B, and an outpoint added only as a bid never appears in the reveal list
\* of the same name (nor the other way round).
C6_PrefixIsolation ==
    /\ \A kind \in Kinds, A \in Names, B \in Names, o \in Outpoints :
          (A # B /\ <<kind, A, o>> \in ever /\ <<kind, B, o>> \notin ever)
             => o \notin Range(Items(ListQuery(db, kind, B)))
    /\ \A kind \in Kinds, other \in Kinds, name \in Names, o \in Outpoints :
          (kind # other /\ <<kind, name, o>> \in ever /\ <<other, name, o>> \notin ever)
             => o \notin Range(Items(ListQuery(db, other, name)))

C6_Witness ==
    \E A \in Names, B \in Names, o1 \in Outpoints, o2 \in Outpoints :
        /\ A # B /\ o1 # o2
        /\ <<"bid", A, o1>> \in live /\ <<"bid", B, o1>> \notin ever
        /\ <<"bid", B, o2>> \in live /\ <<"bid", A, o2>> \notin ever
        /\ <<"reveal", A, o2>> \in live /\ <<"reveal", A, o1>> \notin ever

\* C7: an add or remove call on (name, kind) leaves the counter and the list of
\* every other name and of the other kind, and the tip, as they were.
C7_OtherRecordsUnchanged ==
    Called(AddOps \cup RemoveOps)
    => /\ getTip(db) = getTip(prev)
       /\ \A kind \in Kinds, name \in Names :
             <<kind, name>> # <<KindOf(last.op), last.name>>
                => /\ CountQuery(db, kind, name) = CountQuery(prev, kind, name)
                   /\ ListQuery(db, kind, name) = ListQuery(prev, kind, name)

C7_Witness ==
    /\ last.op = "addReveal"
    /\ last.ret = JsBool(TRUE)
    /\ \A name \in Names : getRevealCount(db, name) = JsBN(1)
    /\ getTip(db) # JsNull

\* C8: when the batch write of an add or remove call fails, the call returns a
\* failure value (null or false) instead of throwing and the store is exactly
\* as it was before the call.
C8_FailedWriteLeavesStore ==
    (Called(AddOps \cup RemoveOps) /\ ~last.writeOk)
    => (db = prev /\ last.ret \in {JsNull, JsBool(FALSE)})

C8_Witness ==
    /\ last.op \in AddOps
    /\ ~last.writeOk
    /\ last.ret = JsNull
    /\ getBidCount(db, last.name) = JsBN(1)
    /\ getTip(db) # JsNull

\* C9: the count query returns the unsigned integer 0 for a name without a
\* counter record, and the stored counter value otherwise.
C9_CountIsZeroWhenAbsent ==
    \A kind \in Kinds, name \in Names :
        CountQuery(db, kind, name) =
            IF db_has(db, CounterKey(kind, name))
            THEN JsBN(BN_decode(db[CounterKey(kind, name)]))
            ELSE JsBN(0)

\* C10: while a block is being processed, the persisted tip becomes that
\* block's hash only after the block's mutations have committed: when an add of
\* the block being walked has just committed, the tip is not yet its hash.
C10_TipAfterMutations ==
    (pc = "outputs" /\ last.op \in AddOps /\ last.ret = JsBool(TRUE))
        => getTip(db) # JsBuf(block.hash)

\* C11 (as stated): getTip() returns absent before any tip has been stored,
\* returns h after putTip(h) succeeds, and returns the hash of the last block
\* once the connected blocks have been processed.
C11_TipIsLastBlock ==
    /\ tipped = JsNull => getTip(db) = JsNull
    /\ (last.op = "putTip" /\ last.writeOk) => getTip(db) = JsBuf(last.outpoint.hash)
    /\ (pc = "idle" /\ block.hash # <<>>) => getTip(db) = JsBuf(block.hash)

\* C11 (amended): getTip() returns absent before any tip has been stored,
\* returns h after putTip(h) succeeds, and at every moment of block processing
\* returns the hash of the last connected block whose tip write succeeded - the
\* last block's own hash when its tip write succeeded.
C11_TipIsLastStoredHash ==
    /\ getTip(db) = tipped
    /\ (last.op = "putTip" /\ last.writeOk) => getTip(db) = JsBuf(last.outpoint.hash)
    /\ (block.step = "connect" /\ last.writeOk) => tipped = JsBuf(block.hash)
    /\ block.step \notin {"idle", "connect"} => getTip(db) = getTip(prev)

C11_Witness ==
    /\ pc = "idle"
    /\ block.step = "stats"
    /\ getTip(db) = JsBuf(block.hash)
    /\ failed
    /\ live # {}

\* the outpoint of the output the handler's last step looked at
StepOutpoint == [hash |-> block.txid, index |-> block.index]

\* C12: when a REGISTER output is classified for a name whose recorded bid
\* count exceeds its recorded reveal count, the 'bid burned' events emitted for
\* it are exactly the recorded bid outpoints of the name whose coin the chain
\* reports absent, each once, and none for a bid whose coin is present.
C12_BurnedAreAbsentCoins ==
    (/\ block.step = "register"
     /\ events # <<>>
     /\ CountOf(getBidCount(db, events[1].name)) > CountOf(getRevealCount(db, events[1].name)))
    => LET name == events[1].name
           burned == SelectSeq(events, LAMBDA e : e.event = "bid burned")
           absent == Range(Items(getBids(db, name))) \ block.coins
       IN /\ {burned[i].outpoint : i \in 1..Len(burned)} = absent
          /\ Len(burned) = Cardinality(absent)
          /\ \A i \in 1..Len(burned) : burned[i].name = name

\* C13: for a BID (resp. REVEAL) output whose name state resolves, exactly one
\* 'bid' (resp. 'reveal') event with that name, outpoint and value is emitted,
\* whether the add call returned success or failure.
C13_EventWhateverIndexed ==
    (block.step \in Kinds /\ last.ret \in {JsBool(TRUE), JsNull})
    => events = <<Event(block.step, last.name, StepOutpoint, block.value)>>

C13_Witness ==
    /\ block.step = "bid"
    /\ last.op = "addBid"
    /\ ~last.writeOk
    /\ last.ret = JsNull
    /\ Len(events) = 1
    /\ events[1].event = "bid"
    /\ ~hasBid(db, events[1].name, events[1].outpoint).v

\* the outpoints of the BID / REVEAL outputs of the connected blocks for a name
SeenOf(kind, name) == {e[3] : e \in {x \in seen : x[1] = kind /\ x[2] = name}}

\* C14: once the connected blocks have been processed without a store failure,
\* the bid (resp. reveal) list of every name holds exactly the outpoints of the
\* BID (resp. REVEAL) outputs for that name in those blocks, and a subscriber
\* joined to the channel for the whole run has been sent one 'bid' (resp.
\* 'reveal') message for each of these outputs.
C14_ListsAndEventsMatchBlocks ==
    /\ (pc = "idle" /\ block.hash # <<>> /\ ~failed)
       => /\ \A kind \in Kinds, name \in Names :
                Range(Items(ListQuery(db, kind, name))) = SeenOf(kind, name)
          /\ \A s \in DOMAIN heard : heard[s] = seen
    /\ (block.step \in Kinds /\ ~failed)
       => \A s \in DOMAIN heard : Len(inbox[s]) = 1

\* C15: every event the handler emits (bid, reveal, register, revoke, bid
\* burned, big spend, block stats) is sent, with the same event name and
\* payload, to every socket joined to 'auction-notify' when it is emitted.
C15_EveryEventDelivered ==
    \A s \in Sockets : sockets[s].watching => inbox[s] = events

\* C16: a socket is sent an emitted event at most once, and only if it is
\* joined to the channel when the event is emitted: a socket that is not joined
\* is sent nothing, and a socket call (a join after the emission) brings no
\* message of an earlier emission.
C16_AtMostOnceWhileJoined ==
    \A s \in Sockets :
        /\ ~sockets[s].watching => inbox[s] = <<>>
        /\ Len(inbox[s]) <= Len(events)
        /\ \A i \in 1..Len(inbox[s]) :
              /\ inbox[s][i] \in Range(events)
              /\ \A j \in 1..Len(inbox[s]) : inbox[s][i] = inbox[s][j] => i = j
        /\ hook.call # "none" => inbox[s] = <<>>

C16_Witness ==
    /\ hook.call = "watch auction-notify"
    /\ hook.ret = JsNull
    /\ sockets[hook.socket].watching
    /\ hook.socket \notin DOMAIN heard
    /\ live # {}
    /\ pc = "outputs"

\* the hash the 'auth' hook computes for a presented key is the API hash
Matches(key) == safeEqual(sha256_digest(Buffer_from_ascii(key)), apiHash)

\* C17: with authentication enabled, a socket is joined to 'auth', has the
\* watch/unwatch hooks or is joined to 'auction-notify' only if it has presented
\* a secret whose hash is the API hash; an 'auth' call with a secret that does
\* not match or is longer than 255 characters is answered with an error, leaves
\* a socket that never presented a matching secret out of 'auth' and without
\* hooks, and leaves the server as it was.
C17_OnlyProvedSocketsJoin ==
    noAuth = FALSE
    => /\ \A s \in Sockets :
             (sockets[s].auth \/ sockets[s].hooks \/ sockets[s].watching)
                => sockets[s].proved
       /\ (hook.call = "auth" /\ (Len(hook.key) > MaxKeyLen \/ ~Matches(hook.key)))
             => /\ hook.ret = JsThrow
                /\ ~sockets[hook.socket].proved => sockets[hook.socket] = NoSocket
                /\ db = prev /\ pc = "idle" /\ inbox = NoInbox

C17_Witness ==
    /\ noAuth = FALSE
    /\ hook.call = "auth"
    /\ Len(hook.key) > MaxKeyLen
    /\ hook.ret = JsThrow
    /\ sockets[hook.socket] = NoSocket
    /\ \E s \in Sockets : sockets[s].watching

\* the membership and counter records of a store
IndexRecords(d) == {k \in DOMAIN d : k[1] \in {TagB, Tagb, TagR, Tagr}}

\* C18: a wipe() that completes has deleted every membership and counter
\* record - afterwards no name has a counter record or a member of either kind
\* - and the number it reports is the number of records it deleted; a second
\* wipe() right after it deletes nothing and reports 0.
C18_WipeDeletesAllAndCounts ==
    /\ []((last.op = "wipe" /\ last.ret = JsUndefined)
           => /\ IndexRecords(db) = {}
              /\ \A kind \in Kinds, name \in Names :
                    /\ CountQuery(db, kind, name) = JsNull
                    /\ ListQuery(db, kind, name) = JsList(<<>>)
                    /\ \A o \in Outpoints : ~HasQuery(db, kind, name, o).v
              /\ last.count = JsBN(Cardinality(IndexRecords(prev)))
              /\ getTip(db) = getTip(prev))
    /\ [][(last.op = "wipe" /\ last.ret = JsUndefined /\ last'.op = "wipe"
            /\ last'.ret = JsUndefined)
           => (last'.count = JsBN(0) /\ db' = db)]_vars

C18_Witness ==
    /\ last.op = "wipe"
    /\ last.ret = JsUndefined
    /\ last.count = JsBN(0)
    /\ ever # {}
    /\ db = prev

\* C19: a store failure during block processing (a failed tip write, a failed
\* batch commit, a failed read of a counter or member list) never aborts the
\* block: the handler goes on with the outputs that remain.
C19_StoreFailureNeverAborts ==
    block.io # "ok" => (pc = "outputs" /\ ~block.threw)

\* C20: when the name-state lookup of an output returns nothing, that output
\* changes nothing in the index, emits and sends nothing, and the handler goes
\* on with the next output of the block from the state it was in.
C20_MissingNameStateSkipped ==
    /\ [](block.step = "nons"
           => /\ db = prev /\ last = NoCall /\ batch = NoBatch
              /\ events = <<>> /\ inbox = NoInbox
              /\ pc = "outputs" /\ ~block.threw)
    /\ [][(block'.step = "nons" /\ outputs' = outputs + 1)
           => /\ UNCHANGED <<db, batch, live, ever, tipped, seen, failed, sockets, heard>>
              /\ block'.hash = block.hash
              /\ pc' = pc]_vars

C20_Witness ==
    /\ block.step = "nons"
    /\ block.index >= 1
    /\ live # {}
    /\ pc = "outputs"

\* C21: for an output with covenant NONE, one 'big spend' event with the
\* output's outpoint and value is emitted if and only if the value is at least
\* the configured threshold; either way no index record changes, no AuctionDB
\* call is made and the name-state lookup is not reached.
C21_BigSpendIffAtLeastThreshold ==
    block.step = "none"
    => /\ (events = <<Event("big spend", NoName, StepOutpoint, block.value)>>)
             <=> (block.value >= configuredBigSpend.n)
       /\ Len(events) <= 1
       /\ db = prev /\ last = NoCall /\ batch = NoBatch

\* C22: for a REGISTER output of a name whose recorded reveal count is at least
\* its recorded bid count (a name without records counting 0 and 0), exactly
\* the 'register' event is emitted, no 'bid burned' event, no index record
\* changes, and the handler goes on with the next output.
C22_RegisterBalancedContinues ==
    (/\ block.step = "register"
     /\ block.io = "ok"
     /\ events # <<>>
     /\ CountOf(getRevealCount(prev, events[1].name))
           >= CountOf(getBidCount(prev, events[1].name)))
    => /\ events = <<Event("register", events[1].name, StepOutpoint, block.value)>>
       /\ db = prev /\ last = NoCall
       /\ pc = "outputs" /\ ~block.threw

\* C23: for a REVOKE output whose name state resolves, exactly one 'revoke'
\* event with that name, outpoint and value is emitted, and no counter, no
\* membership and no list of any name is changed (nor the tip).
C23_RevokeEmitsAndKeepsIndex ==
    block.step = "revoke"
    => /\ events = <<Event("revoke", block.name, StepOutpoint, block.value)>>
       /\ block.name \in Names
       /\ db = prev /\ last = NoCall /\ batch = NoBatch
       /\ \A kind \in Kinds, name \in Names :
             /\ CountQuery(db, kind, name) = CountQuery(prev, kind, name)
             /\ ListQuery(db, kind, name) = ListQuery(prev, kind, name)
             /\ \A o \in Outpoints :
                   HasQuery(db, kind, name, o) = HasQuery(prev, kind, name, o)
       /\ pc = "outputs"

C23_Witness ==
    /\ block.step = "revoke"
    /\ getBidCount(db, block.name) = JsBN(1)
    /\ Len(Items(getBids(db, block.name))) = 1
    /\ Len(events) = 1
    /\ events[1].event = "revoke"

\* the last step wrote to the store or emitted an event
Acted == db # prev \/ events # <<>>

\* C24: block processing never overlaps. With the chain connecting blocks one
\* after another, at most one 'connect' listener is running at any moment, it
\* is the listener of the block last connected, and every store mutation and
\* every emission is made by it: all of block k's come before any of block k+1's.
C24_NoOverlappingBlocks ==
    /\ [](/\ Cardinality(running) <= 1
          /\ pc = "outputs" => running = {block.hash}
          /\ pc = "idle" => running = {}
          /\ (Acted /\ hook = NoHook /\ pc = "outputs") => block.hash \in running)
    /\ [][(pc' = "outputs" /\ block'.hash # block.hash) => running = {}]_vars

C24_Witness ==
    /\ pc = "outputs"
    /\ block.step = "connect"
    /\ Acted
    /\ running = {block.hash}
    /\ tipped = JsBuf(block.hash)
    /\ live # {}

\* callers t and u made the same kind of call for the same name with distinct
\* outpoints, their calls were in progress together and are over, the store
\* stayed open and no write failed
RacedPair(t, u) ==
    /\ t # u
    /\ tasks[t].pc = "done" /\ tasks[u].pc = "done"
    /\ tasks[t].raced /\ tasks[u].raced
    /\ tasks[t].op = tasks[u].op
    /\ tasks[t].name = tasks[u].name
    /\ tasks[t].outpoint # tasks[u].outpoint
    /\ tasks[t].ok /\ tasks[u].ok
    /\ opened

\* C25: two addBid (or two removeBid of recorded bids) calls for the same name
\* with distinct outpoints, in progress together, both complete with success;
\* the counter has moved by 2 and both membership changes are in the store,
\* however their reads, batch starts and commits interleave.
C25_NoLostUpdate ==
    \A t, u \in Tasks :
        (/\ RacedPair(t, u)
         /\ tasks[t].op = "removeBid"
               => {<<"bid", tasks[t].name, tasks[t].outpoint>>,
                   <<"bid", tasks[u].name, tasks[u].outpoint>>} \subseteq SeededMembers)
        => LET name == tasks[t].name
               was == CountOf(getBidCount(Seeded, name))
               now == CountOf(getBidCount(db, name))
           IN /\ tasks[t].ret = JsBool(TRUE) /\ tasks[u].ret = JsBool(TRUE)
              /\ IF tasks[t].op = "addBid"
                 THEN /\ now = was + 2
                      /\ hasBid(db, name, tasks[t].outpoint).v
                      /\ hasBid(db, name, tasks[u].outpoint).v
                 ELSE /\ now = was - 2
                      /\ ~hasBid(db, name, tasks[t].outpoint).v
                      /\ ~hasBid(db, name, tasks[u].outpoint).v

\* the membership key of the call caller t is in
TaskKey(t) == B_encode(tasks[t].name, tasks[t].outpoint.hash, tasks[t].outpoint.index)

\* C26: no query sees half a batch. The committed store changes only by the
\* write of one call's batch, and that step installs the call's counter and
\* its membership change together and nothing else; a failed write installs
\* neither. Every store state a concurrent count / has / list query can read
\* is one of these.
C26_BatchAppliedWhole ==
    [][/\ db' # db
          => \E t \in Tasks :
                /\ tasks[t].pc = "write" /\ tasks'[t].pc = "written" /\ tasks'[t].ok
                /\ db_get(db', b_encode(tasks[t].name))
                      = JsBuf(BN_encode(tasks[t].count.n))
                /\ db_has(db', TaskKey(t)) <=> (tasks[t].op = "addBid")
                /\ \A k \in (DOMAIN db \cup DOMAIN db') \ {b_encode(tasks[t].name), TaskKey(t)} :
                      k \in DOMAIN db /\ k \in DOMAIN db' /\ db'[k] = db[k]
       /\ \A t \in Tasks :
             (tasks[t].pc = "write" /\ tasks'[t].pc = "written" /\ ~tasks'[t].ok)
                => db' = db]_vars

C26_Witness ==
    \E t, u \in Tasks :
        /\ tasks[t].pc = "written" /\ tasks[t].ok /\ tasks[t].op = "removeBid"
        /\ db # prev
        /\ tasks[u].pc = "got" /\ tasks[u].name = tasks[t].name
        /\ getBidCount(db, tasks[t].name) = JsBN(1)
        /\ Len(Items(getBids(db, tasks[t].name))) = 1

\* C27: the handler never waits for a subscriber. While a block is being
\* processed its next step is enabled whatever the consumers have taken: the
\* end of the block always, the next output while the model's bound allows
\* one; and a forwarded event is sent to every joined socket even when another
\* socket's consumer has taken nothing.
C27_HandlerNeverWaits ==
    /\ pc = "outputs" => ENABLED blockStats
    /\ (pc = "outputs" /\ outputs < MaxOutputs) => ENABLED Revoke(SocketIn)
    /\ \A s \in Sockets :
          (/\ sockets[s].watching
           /\ hook = NoHook /\ events # <<>>
           /\ \A i \in 1..Len(events) : events[i].event \in ForwardedEvents)
          => (inbox[s] = events /\ pending[s])

C27_Witness ==
    /\ pc = "idle"
    /\ block.step = "stats"
    /\ pending[1]
    /\ ~pending[2]
    /\ 1 \in DOMAIN heard /\ 2 \in DOMAIN heard
    /\ Cardinality(heard[1]) >= 2
    /\ heard[2] = heard[1]

\* C28: close() does not release the store while a batch commit is in flight:
\* the store is never closed while a started batch is still uncommitted.
C28_CloseWaitsForCommit ==
    ~opened => batch = NoBatch

\* C29: the processing of every connected block (no store failure occurring)
\* ends with one 'block stats' emission, made after the per-output events of
\* the block, whatever covenants the block holds, and its counters count,
\* opens, bids and reveals are all 0.
C29_BlockEndsWithZeroStats ==
    (pc = "idle" /\ block.hash # <<>> /\ ~failed /\ hook = NoHook)
    => /\ block.step = "stats"
       /\ ~block.threw
       /\ events = <<[event |-> "block stats",
                      stats |-> [count |-> 0, opens |-> 0, bids |-> 0, reveals |-> 0]]>>

\* C30: an output with an OPEN covenant (or any auction covenant other than
\* BID, REVEAL, REGISTER, REVOKE) whose name state resolves emits nothing,
\* sends nothing and changes no index record; so no step of the handler ever
\* emits an 'open' event, although 'open' is among the forwarded events.
C30_OpenNeverEmitted ==
    /\ block.step = "other"
          => /\ events = <<>> /\ inbox = NoInbox
             /\ db = prev /\ last = NoCall /\ batch = NoBatch
             /\ pc = "outputs"
    /\ \A i \in 1..Len(events) : events[i].event # "open"
    /\ "open" \in ForwardedEvents

C30_Witness ==
    /\ block.step = "other"
    /\ block.index >= 1
    /\ live # {}
    /\ events = <<>>

\* C31: the block handler never removes a member and has no handler for a
\* disconnected block: across any sequence of connected blocks every name's bid
\* and reveal counters and member lists never shrink from one step to the next,
\* nothing once indexed leaves the index, and the tip changes only when a block
\* is connected, to the hash of that block - no step moves it back.
C31_IndexOnlyGrows ==
    /\ \A name \in Names, kind \in Kinds :
          /\ CountOf(CountQuery(db, kind, name)) >= CountOf(CountQuery(prev, kind, name))
          /\ Range(Items(ListQuery(prev, kind, name)))
                \subseteq Range(Items(ListQuery(db, kind, name)))
    /\ live = ever
    /\ last.op \notin RemoveOps \cup {"wipe"}
    /\ getTip(db) # getTip(prev)
          => /\ block.step = "connect"
             /\ getTip(db) = JsBuf(block.hash)
    /\ getTip(prev) # JsNull => getTip(db) # JsNull

C31_Witness ==
    /\ block.step = "connect"
    /\ getTip(prev) = JsBuf(Hash(1))
    /\ getTip(db) = JsBuf(Hash(2))
    /\ Cardinality(live) >= 2
    /\ \E name \in Names : CountOf(getBidCount(db, name)) >= 2

\* C32: the index store is open in every state in which the HTTP/websocket
\* server accepts requests: Plugin.open makes the store usable before a query
\* route can be served and Plugin.close stops serving before the store is
\* closed, so no query handler (getTip, getBids, getReveals) runs against a
\* store that is not open.
C32_StoreOpenWhileServing ==
    /\ listening => opened
    /\ request.route # "none" => (request.store /\ request.status = 200)

\* C33: AuctionNotifyClient.close() sends 'unwatch auction-notify' while its
\* socket connection is still open (the leave request precedes the disconnect),
\* and AuctionNotifyClient.open() sends 'watch auction-notify' only after the
\* connection is open and authenticated, so that the server's watch hook exists
\* when the request arrives.
C33_CallsWhileConnected ==
    \A i \in 1..Len(client.sent) :
        LET c == client.sent[i]
        IN /\ c.call = "unwatch auction-notify" => c.connected
           /\ c.call = "watch auction-notify" => (c.connected /\ c.authed /\ c.hooks)

\* the server was given no API key; it listens on a loopback host; the noAuth
\* option was set
NoKey == Not(options.apiKey)
Local == HTTPOptions(options).host \in Loopback
NoAuthSet == options.noAuth = JsBool(TRUE)

\* authentication is disabled: after an 'auth' call, whatever it presented, the
\* socket is authenticated (the call succeeded, or the socket was authenticated
\* already and the call is refused for that), and it may then join the channel
AuthDisabled ==
    /\ hook.call = "auth"
          => (sockets[hook.socket].auth /\ sockets[hook.socket].hooks)
    /\ (hook.call = "watch auction-notify" /\ sockets[hook.socket].auth)
          => (hook.ret = JsNull /\ sockets[hook.socket].watching)

\* the hash of the presented value must equal the stored hash
AuthCompared ==
    /\ (hook.call = "auth" /\ hook.ret = JsNull)
          => safeEqual(sha256_digest(Buffer_from_ascii(hook.key)), apiHash)
    /\ \A s \in Sockets :
          (sockets[s].auth \/ sockets[s].hooks \/ sockets[s].watching) => sockets[s].proved

\* C34 (as stated): without an API key and on 127.0.0.1 or ::1 authentication
\* is disabled - an 'auth' call with any presented value succeeds and lets the
\* socket join 'auction-notify'; when an API key is configured, or the host is
\* not loopback and noAuth was not set, the presented value's hash must equal
\* the stored hash.
C34_KeyAlwaysCompared ==
    /\ (NoKey /\ Local) => AuthDisabled
    /\ (~NoKey \/ (~Local /\ ~NoAuthSet)) => AuthCompared

\* C34 (amended): authentication is disabled when the server has no API key and
\* listens on 127.0.0.1 or ::1, and also whenever the noAuth option is set,
\* with or without an API key; in every other case the presented value's hash
\* must equal the stored hash.
C34_AuthOffWhenLocalOrSet ==
    /\ noAuth <=> ((NoKey /\ Local) \/ NoAuthSet)
    /\ noAuth => AuthDisabled
    /\ ~noAuth => AuthCompared

C34_Witness ==
    /\ NoKey /\ Local /\ ~NoAuthSet
    /\ hook.call = "watch auction-notify"
    /\ sockets[hook.socket].watching
    /\ ~sockets[hook.socket].proved
    /\ \E s \in Sockets : ~sockets[s].auth

\* C35: every kind of event the twitter bot handles reaches it: for each name
\* the bot binds for tweeting ('bid', 'reveal', 'register', 'bid burned',
\* 'open', 'none', 'stats'), an emission of the corresponding domain event by
\* the server while the bot is joined is sent to the bot under that name (and
\* so invokes its handler), and every event name the server forwards to the
\* channel is one the bot binds.
C35_BotHandlesEveryEvent ==
    (sockets[Bot].watching /\ events # <<>>)
    => /\ \A b \in TweetBinds, i \in 1..Len(events) :
             events[i].event = DomainEvent(b)
                 => \E m \in Invoked(inbox[Bot]) :
                        m = [events[i] EXCEPT !.event = b]
       /\ ForwardedEvents \subseteq BotBinds

\* C36: the store's single pending-batch slot is null whenever no mutation is
\* in flight: once commit() has returned, the write having succeeded or failed,
\* the slot is null; so in sequential use no call fails the 'batch === null'
\* assertion of start(), and a call made after a failed one writes and returns
\* as if the failure had not happened.
C36_SlotNullBetweenMutations ==
    /\ (\A t \in Tasks : tasks[t].pc \notin {"write", "written"}) => batch = NoBatch
    /\ \A t \in Tasks :
          (opened /\ tasks[t].pc = "done" /\ ~tasks[t].raced)
          => /\ tasks[t].ret # JsThrow
             /\ tasks[t].ret \in {commit_end(tasks[t].op, tasks[t].ok), JsNull}
             /\ (tasks[t].op = "addBid" /\ tasks[t].ok) => tasks[t].ret = JsBool(TRUE)

C36_Witness ==
    /\ opened
    /\ batch = NoBatch
    /\ \E t \in Tasks, u \in Tasks :
          /\ tasks[t].pc = "done" /\ tasks[t].op = "addBid"
          /\ ~tasks[t].ok /\ tasks[t].ret = JsNull /\ ~tasks[t].raced
          /\ tasks[u].pc = "done" /\ tasks[u].op = "addBid"
          /\ tasks[u].ok /\ tasks[u].ret = JsBool(TRUE) /\ ~tasks[u].raced
          /\ last.op = "addBid" /\ last.writeOk /\ last.ret = JsBool(TRUE)
          /\ last.outpoint = tasks[u].outpoint

====
